---- MODULE Spec2Model ----
(***************************************************************************)
(* Model of src/LinkedList.ts: a doubly linked list of LinkedListNode      *)
(* objects with the fields _head, _tail and _size.  The heap of node       *)
(* objects is modelled by three functions next, prev and value over node   *)
(* identities; Nil stands for undefined.  Every public method is one       *)
(* operator on a list record (the object's fields plus the heap) returning *)
(* the list after the call and the value returned or the error thrown.     *)
(***************************************************************************)
EXTENDS Integers, Sequences, FiniteSets, TLC

\* Number of node objects the heap can hold at one time.
MaxNodes == 3
\* Stored values are 1..MaxVal.
MaxVal == 2

\* An absent reference (undefined).
Nil == 0

Node == 1..MaxNodes
Values == 1..MaxVal
\* Integer arguments passed as index: both out-of-range sides are included.
Indices == -1..(MaxNodes + 1)

VARIABLES head, tail, size, next, prev, value, op, result

vars == <<head, tail, size, next, prev, value, op, result>>

\* The list object together with the node objects, as one record.
Cur == [head |-> head, tail |-> tail, size |-> size,
        next |-> next, prev |-> prev, value |-> value]

----------------------------------------------------------------------------
\* Results of a call: what is returned, or the error that is thrown.

Ret(kind, val, arr) == [kind |-> kind, val |-> val, arr |-> arr]

Void == Ret("void", 0, <<>>)
Null == Ret("null", 0, <<>>)
Undefined == Ret("undefined", 0, <<>>)
OutOfBounds == Ret("OutOfBounds", 0, <<>>)
TypeError == Ret("TypeError", 0, <<>>)
This == Ret("this", 0, <<>>)
Val(v) == Ret("value", v, <<>>)
Bool(b) == Ret(IF b THEN "true" ELSE "false", 0, <<>>)
Num(n) == Ret("number", n, <<>>)
Arr(a) == Ret("array", 0, a)

Call(name, index, v) == [name |-> name, index |-> index, value |-> v]

Out(L, ret) == [list |-> L, ret |-> ret]

----------------------------------------------------------------------------
\* Node objects: allocation and construction.

RECURSIVE Closure(_, _)
Closure(L, S) ==
  LET T == (S \cup {L.next[n] : n \in S} \cup {L.prev[n] : n \in S}) \ {Nil}
  IN IF T = S THEN S ELSE Closure(L, T)

\* The node objects the list object still references, directly or through
\* links; every other node object is garbage and its storage may be reused.
Live(L) == Closure(L, {L.head, L.tail} \ {Nil})

HasFree(L) == Node \ Live(L) # {}

\* The identity of the object a `new LinkedListNode` yields.
NewNode(L) == CHOOSE n \in Node \ Live(L) : \A m \in Node \ Live(L) : n <= m

\* constructor(value, next?, prev?) called with the value only.
LinkedListNode(L, n, v) ==
  [L EXCEPT !.value[n] = v, !.next[n] = Nil, !.prev[n] = Nil]

\* Node objects the list no longer references cease to exist (they are
\* garbage collected): their storage holds nothing until it is reused.
Collect(L) ==
  LET live == Live(L)
  IN IF live = Node THEN L
     ELSE [L EXCEPT
             !.next = [n \in Node |-> IF n \in live THEN L.next[n] ELSE Nil],
             !.prev = [n \in Node |-> IF n \in live THEN L.prev[n] ELSE Nil],
             !.value = [n \in Node |-> IF n \in live THEN L.value[n] ELSE 0]]

----------------------------------------------------------------------------
\* The methods of LinkedList.

isEmpty(L) == Out(L, Bool(L.head = Nil))

\* atLoop stepping once too often (i <= index).
RECURSIVE atLoop_offByOne(_, _, _, _)
atLoop_offByOne(L, currentNode, i, index) ==
  IF i <= index
  THEN atLoop_offByOne(L,
                       IF currentNode = Nil THEN Nil ELSE L.next[currentNode],
                       i + 1, index)
  ELSE currentNode

RECURSIVE atLoop(_, _, _, _)
atLoop(L, currentNode, i, index) ==
  IF i < index
  THEN atLoop(L, IF currentNode = Nil THEN Nil ELSE L.next[currentNode],
              i + 1, index)
  ELSE currentNode

at(L, index) ==
  IF index < 0 \/ index >= L.size
  THEN Out(L, Null)
  ELSE LET currentNode == atLoop(L, L.head, 0, index)
       IN IF currentNode = Nil THEN Out(L, Null)
          ELSE Out(L, Val(L.value[currentNode]))

\* prepend without `newNode.next = this._head`.
prepend_noNextLink(L, v) ==
  LET newNode == NewNode(L)
      L0 == LinkedListNode(L, newNode, v)
      L1 == IF L0.head = Nil
            THEN [L0 EXCEPT !.head = newNode, !.tail = newNode]
            ELSE [L0 EXCEPT !.prev[L0.head] = newNode,
                            !.head = newNode]
  IN Out([L1 EXCEPT !.size = @ + 1], Void)

prepend(L, v) ==
  LET newNode == NewNode(L)
      L0 == LinkedListNode(L, newNode, v)
      L1 == IF L0.head = Nil
            THEN [L0 EXCEPT !.head = newNode, !.tail = newNode]
            ELSE [L0 EXCEPT !.prev[L0.head] = newNode,
                            !.next[newNode] = L0.head,
                            !.head = newNode]
  IN Out([L1 EXCEPT !.size = @ + 1], Void)

\* shift without `this._tail = undefined` on a single node.
shift_keepsTail(L) ==
  IF L.head = Nil
  THEN Out(L, OutOfBounds)
  ELSE LET removedNode == L.head
       IN IF L.head = L.tail
          THEN Out([L EXCEPT !.head = L.next[L.head],
                             !.size = @ - 1],
                   Val(L.value[removedNode]))
          ELSE IF L.next[L.head] = Nil
               THEN Out(L, TypeError)
               ELSE Out([L EXCEPT !.prev[L.next[L.head]] = Nil,
                                  !.head = L.next[L.head],
                                  !.size = @ - 1],
                        Val(L.value[removedNode]))

\* shift without `this._head = this._head.next`.
shift_noHeadAdvance(L) ==
  IF L.head = Nil
  THEN Out(L, OutOfBounds)
  ELSE LET removedNode == L.head
       IN IF L.head = L.tail
          THEN Out([L EXCEPT !.tail = Nil,
                             !.size = @ - 1],
                   Val(L.value[removedNode]))
          ELSE IF L.next[L.head] = Nil
               THEN Out(L, TypeError)
               ELSE Out([L EXCEPT !.prev[L.next[L.head]] = Nil,
                                  !.size = @ - 1],
                        Val(L.value[removedNode]))

shift(L) ==
  IF L.head = Nil
  THEN Out(L, OutOfBounds)
  ELSE LET removedNode == L.head
       IN IF L.head = L.tail
          THEN Out([L EXCEPT !.tail = Nil,
                             !.head = L.next[L.head],
                             !.size = @ - 1],
                   Val(L.value[removedNode]))
          ELSE IF L.next[L.head] = Nil
               THEN Out(L, TypeError)
               ELSE Out([L EXCEPT !.prev[L.next[L.head]] = Nil,
                                  !.head = L.next[L.head],
                                  !.size = @ - 1],
                        Val(L.value[removedNode]))

append(L, v) ==
  LET newNode == NewNode(L)
      L0 == LinkedListNode(L, newNode, v)
  IN IF L0.head = Nil
     THEN Out([L0 EXCEPT !.head = newNode,
                         !.tail = newNode,
                         !.size = @ + 1], Void)
     ELSE IF L0.tail = Nil
          THEN Out(L0, TypeError)
          ELSE Out([L0 EXCEPT !.next[L0.tail] = newNode,
                              !.prev[newNode] = L0.tail,
                              !.tail = newNode,
                              !.size = @ + 1], Void)

\* pop without `this._size--`.
pop_keepsSize(L) ==
  IF L.head = Nil
  THEN Out(L, OutOfBounds)
  ELSE LET removedNode == L.tail
       IN IF L.head = L.tail
          THEN Out([L EXCEPT !.head = Nil,
                             !.tail = L.prev[L.tail]],
                   Val(L.value[removedNode]))
          ELSE IF L.tail = Nil \/ L.prev[L.tail] = Nil
               THEN Out(L, TypeError)
               ELSE Out([L EXCEPT !.next[L.prev[L.tail]] = Nil,
                                  !.tail = L.prev[L.tail]],
                        Val(L.value[removedNode]))

\* pop returning undefined on an empty list instead of throwing.
pop_emptyUndefined(L) ==
  IF L.head = Nil
  THEN Out(L, Undefined)
  ELSE LET removedNode == L.tail
       IN IF L.head = L.tail
          THEN Out([L EXCEPT !.head = Nil,
                             !.tail = L.prev[L.tail],
                             !.size = @ - 1],
                   Val(L.value[removedNode]))
          ELSE IF L.tail = Nil \/ L.prev[L.tail] = Nil
               THEN Out(L, TypeError)
               ELSE Out([L EXCEPT !.next[L.prev[L.tail]] = Nil,
                                  !.tail = L.prev[L.tail],
                                  !.size = @ - 1],
                        Val(L.value[removedNode]))

\* pop without `this._tail.prev.next = undefined`.
pop_noNextClear(L) ==
  IF L.head = Nil
  THEN Out(L, OutOfBounds)
  ELSE LET removedNode == L.tail
       IN IF L.head = L.tail
          THEN Out([L EXCEPT !.head = Nil,
                             !.tail = L.prev[L.tail],
                             !.size = @ - 1],
                   Val(L.value[removedNode]))
          ELSE IF L.tail = Nil \/ L.prev[L.tail] = Nil
               THEN Out(L, TypeError)
               ELSE Out([L EXCEPT !.tail = L.prev[L.tail],
                                  !.size = @ - 1],
                        Val(L.value[removedNode]))

\* pop clearing `this._tail.prev.prev` instead of `this._tail.prev.next`.
pop_wrongLink(L) ==
  IF L.head = Nil
  THEN Out(L, OutOfBounds)
  ELSE LET removedNode == L.tail
       IN IF L.head = L.tail
          THEN Out([L EXCEPT !.head = Nil,
                             !.tail = L.prev[L.tail],
                             !.size = @ - 1],
                   Val(L.value[removedNode]))
          ELSE IF L.tail = Nil \/ L.prev[L.tail] = Nil
               THEN Out(L, TypeError)
               ELSE Out([L EXCEPT !.prev[L.prev[L.tail]] = Nil,
                                  !.tail = L.prev[L.tail],
                                  !.size = @ - 1],
                        Val(L.value[removedNode]))

pop(L) ==
  IF L.head = Nil
  THEN Out(L, OutOfBounds)
  ELSE LET removedNode == L.tail
       IN IF L.head = L.tail
          THEN Out([L EXCEPT !.head = Nil,
                             !.tail = L.prev[L.tail],
                             !.size = @ - 1],
                   Val(L.value[removedNode]))
          ELSE IF L.tail = Nil \/ L.prev[L.tail] = Nil
               THEN Out(L, TypeError)
               ELSE Out([L EXCEPT !.next[L.prev[L.tail]] = Nil,
                                  !.tail = L.prev[L.tail],
                                  !.size = @ - 1],
                        Val(L.value[removedNode]))

\* insertAtLoop stepping once too often (i < index).
RECURSIVE insertAtLoop_offByOne(_, _, _, _)
insertAtLoop_offByOne(L, prevNode, i, index) ==
  IF i < index
  THEN insertAtLoop_offByOne(L,
                             IF prevNode = Nil THEN Nil ELSE L.next[prevNode],
                             i + 1, index)
  ELSE prevNode

RECURSIVE insertAtLoop(_, _, _, _)
insertAtLoop(L, prevNode, i, index) ==
  IF i < index - 1
  THEN insertAtLoop(L, IF prevNode = Nil THEN Nil ELSE L.next[prevNode],
                    i + 1, index)
  ELSE prevNode

\* insertAt without `nextNode.prev = newNode`.
insertAt_noBackLink(L, index, v) ==
  IF index < 0 \/ index > L.size
  THEN Out(L, OutOfBounds)
  ELSE IF index = 0
  THEN prepend(L, v)
  ELSE IF index = L.size
  THEN append(L, v)
  ELSE LET newNode == NewNode(L)
           L0 == LinkedListNode(L, newNode, v)
           prevNode == insertAtLoop(L0, L0.head, 0, index)
           nextNode == IF prevNode = Nil THEN Nil ELSE L0.next[prevNode]
       IN IF prevNode = Nil
          THEN Out(L0, TypeError)
          ELSE LET L1 == [L0 EXCEPT !.next[prevNode] = newNode,
                                    !.prev[newNode] = prevNode,
                                    !.next[newNode] = nextNode]
               IN IF nextNode = Nil
                  THEN Out(L1, TypeError)
                  ELSE Out([L1 EXCEPT !.size = @ + 1], Void)

insertAt(L, index, v) ==
  IF index < 0 \/ index > L.size
  THEN Out(L, OutOfBounds)
  ELSE IF index = 0
  THEN prepend(L, v)
  ELSE IF index = L.size
  THEN append(L, v)
  ELSE LET newNode == NewNode(L)
           L0 == LinkedListNode(L, newNode, v)
           prevNode == insertAtLoop(L0, L0.head, 0, index)
           nextNode == IF prevNode = Nil THEN Nil ELSE L0.next[prevNode]
       IN IF prevNode = Nil
          THEN Out(L0, TypeError)
          ELSE LET L1 == [L0 EXCEPT !.next[prevNode] = newNode,
                                    !.prev[newNode] = prevNode,
                                    !.next[newNode] = nextNode]
               IN IF nextNode = Nil
                  THEN Out(L1, TypeError)
                  ELSE Out([L1 EXCEPT !.prev[nextNode] = newNode,
                                      !.size = @ + 1], Void)

\* removeAtLoop stopping one node early (i < index - 1).
RECURSIVE removeAtLoop_short(_, _, _, _)
removeAtLoop_short(L, removedNode, i, index) ==
  IF i < index - 1
  THEN removeAtLoop_short(L,
                          IF removedNode = Nil THEN Nil
                          ELSE L.next[removedNode],
                          i + 1, index)
  ELSE removedNode

RECURSIVE removeAtLoop(_, _, _, _)
removeAtLoop(L, removedNode, i, index) ==
  IF i < index
  THEN removeAtLoop(L, IF removedNode = Nil THEN Nil ELSE L.next[removedNode],
                    i + 1, index)
  ELSE removedNode

\* removeAt whose bounds check lets index = size through.
removeAt_offByOne(L, index) ==
  IF index < 0 \/ index > L.size
  THEN Out(L, OutOfBounds)
  ELSE IF index = 0
  THEN shift(L)
  ELSE IF index = L.size - 1
  THEN pop(L)
  ELSE LET removedNode == removeAtLoop(L, L.head, 0, index)
       IN IF removedNode = Nil \/ L.prev[removedNode] = Nil
          THEN Out(L, TypeError)
          ELSE LET L1 == [L EXCEPT !.next[L.prev[removedNode]] =
                                      L.next[removedNode]]
               IN IF L1.next[removedNode] = Nil
                  THEN Out(L1, TypeError)
                  ELSE Out([L1 EXCEPT !.prev[L1.next[removedNode]] =
                                         L1.prev[removedNode],
                                      !.size = @ - 1],
                           Val(L1.value[removedNode]))

\* removeAt without `removedNode.prev.next = removedNode.next`.
removeAt_noForwardUnlink(L, index) ==
  IF index < 0 \/ index >= L.size
  THEN Out(L, OutOfBounds)
  ELSE IF index = 0
  THEN shift(L)
  ELSE IF index = L.size - 1
  THEN pop(L)
  ELSE LET removedNode == removeAtLoop(L, L.head, 0, index)
       IN IF removedNode = Nil \/ L.prev[removedNode] = Nil
          THEN Out(L, TypeError)
          ELSE LET L1 == L
               IN IF L1.next[removedNode] = Nil
                  THEN Out(L1, TypeError)
                  ELSE Out([L1 EXCEPT !.prev[L1.next[removedNode]] =
                                         L1.prev[removedNode],
                                      !.size = @ - 1],
                           Val(L1.value[removedNode]))

removeAt(L, index) ==
  IF index < 0 \/ index >= L.size
  THEN Out(L, OutOfBounds)
  ELSE IF index = 0
  THEN shift(L)
  ELSE IF index = L.size - 1
  THEN pop(L)
  ELSE LET removedNode == removeAtLoop(L, L.head, 0, index)
       IN IF removedNode = Nil \/ L.prev[removedNode] = Nil
          THEN Out(L, TypeError)
          ELSE LET L1 == [L EXCEPT !.next[L.prev[removedNode]] =
                                      L.next[removedNode]]
               IN IF L1.next[removedNode] = Nil
                  THEN Out(L1, TypeError)
                  ELSE Out([L1 EXCEPT !.prev[L1.next[removedNode]] =
                                         L1.prev[removedNode],
                                      !.size = @ - 1],
                           Val(L1.value[removedNode]))

\* reverseLoop without `currentNode.prev = nextNode`.
RECURSIVE reverseLoop_noPrev(_, _, _)
reverseLoop_noPrev(L, currentNode, prevNode) ==
  IF currentNode # Nil
  THEN LET nextNode == L.next[currentNode]
           prevNode0 == L.prev[currentNode]
       IN reverseLoop_noPrev([L EXCEPT !.next[currentNode] = prevNode0],
                             nextNode, currentNode)
  ELSE [list |-> L, prevNode |-> prevNode]

\* reverseLoop without `currentNode.next = prevNode`.
RECURSIVE reverseLoop_noNext(_, _, _)
reverseLoop_noNext(L, currentNode, prevNode) ==
  IF currentNode # Nil
  THEN LET nextNode == L.next[currentNode]
       IN reverseLoop_noNext([L EXCEPT !.prev[currentNode] = nextNode],
                             nextNode, currentNode)
  ELSE [list |-> L, prevNode |-> prevNode]

RECURSIVE reverseLoop(_, _, _)
reverseLoop(L, currentNode, prevNode) ==
  IF currentNode # Nil
  THEN LET nextNode == L.next[currentNode]
           prevNode0 == L.prev[currentNode]
       IN reverseLoop([L EXCEPT !.next[currentNode] = prevNode0,
                                !.prev[currentNode] = nextNode],
                      nextNode, currentNode)
  ELSE [list |-> L, prevNode |-> prevNode]

\* reverse without the final exchange of _head and _tail.
reverse_noSwap(L) ==
  IF L.head = Nil
  THEN Out(L, Null)
  ELSE LET R == reverseLoop(L, L.head, Nil)
       IN Out(R.list, This)

reverse(L) ==
  IF L.head = Nil
  THEN Out(L, Null)
  ELSE LET R == reverseLoop(L, L.head, Nil)
       IN Out([R.list EXCEPT !.tail = L.head, !.head = R.prevNode], This)

\* clear without `this._tail = undefined`.
clear_keepsTail(L) == Out([L EXCEPT !.head = Nil, !.size = 0], Void)

clear(L) == Out([L EXCEPT !.head = Nil, !.tail = Nil, !.size = 0], Void)

RECURSIVE toArrayLoop(_, _, _)
toArrayLoop(L, currentNode, array) ==
  IF currentNode # Nil
  THEN toArrayLoop(L, L.next[currentNode],
                   Append(array, L.value[currentNode]))
  ELSE array

\* toArray emptying the list while it collects the values.
toArray_draining(L) ==
  Out([L EXCEPT !.head = Nil, !.tail = Nil, !.size = 0],
      Arr(toArrayLoop(L, L.head, <<>>)))

toArray(L) == Out(L, Arr(toArrayLoop(L, L.head, <<>>)))

\* findLoop returning `index++` (the index before the increment).
RECURSIVE findLoop_postIncrement(_, _, _, _)
findLoop_postIncrement(L, currentNode, index, v) ==
  IF currentNode # Nil
  THEN IF L.value[currentNode] = v
       THEN Num(index)
       ELSE findLoop_postIncrement(L, L.next[currentNode], index, v)
  ELSE Undefined

RECURSIVE findLoop(_, _, _, _)
findLoop(L, currentNode, index, v) ==
  IF currentNode # Nil
  THEN IF L.value[currentNode] = v
       THEN Num(index + 1)
       ELSE findLoop(L, L.next[currentNode], index, v)
  ELSE Undefined

find(L, v) == Out(L, findLoop(L, L.head, 0, v))

contains(L, v) ==
  LET r == find(L, v).ret
  IN Out(L, Bool(~(r.kind = "undefined" \/ (r.kind = "number" /\ r.val = 0))))

----------------------------------------------------------------------------
\* The state machine: one action per public method.

Init ==
  /\ head = Nil
  /\ tail = Nil
  /\ size = 0
  /\ next = [n \in Node |-> Nil]
  /\ prev = [n \in Node |-> Nil]
  /\ value = [n \in Node |-> 0]
  /\ op = Call("new", 0, 0)
  /\ result = Void

\* One call of a public method: the fields and the node objects become what
\* the method leaves, op records the call and result what it returned or
\* threw.  A call that changed nothing leaves no new garbage to collect.
Do(call, out) ==
  \E o \in {out} :
  \E after \in {IF o.list = Cur THEN o.list ELSE Collect(o.list)} :
     /\ head' = after.head
     /\ tail' = after.tail
     /\ size' = after.size
     /\ next' = after.next
     /\ prev' = after.prev
     /\ value' = after.value
     /\ op' = call
     /\ result' = o.ret

IsEmpty == Do(Call("isEmpty", 0, 0), isEmpty(Cur))

At == \E i \in Indices : Do(Call("at", i, 0), at(Cur, i))

Prepend == \E v \in Values :
  /\ HasFree(Cur)
  /\ Do(Call("prepend", 0, v), prepend(Cur, v))

Shift == Do(Call("shift", 0, 0), shift(Cur))

AppendOp == \E v \in Values :
  /\ HasFree(Cur)
  /\ Do(Call("append", 0, v), append(Cur, v))

Pop == Do(Call("pop", 0, 0), pop(Cur))

InsertAt == \E i \in Indices, v \in Values :
  /\ (0 <= i /\ i <= size) => HasFree(Cur)
  /\ Do(Call("insertAt", i, v), insertAt(Cur, i, v))

RemoveAt == \E i \in Indices : Do(Call("removeAt", i, 0), removeAt(Cur, i))

Reverse == Do(Call("reverse", 0, 0), reverse(Cur))

Clear == Do(Call("clear", 0, 0), clear(Cur))

ToArray == Do(Call("toArray", 0, 0), toArray(Cur))

Find == \E v \in Values : Do(Call("find", 0, v), find(Cur, v))

Contains == \E v \in Values : Do(Call("contains", 0, v), contains(Cur, v))

Next ==
  \/ IsEmpty
  \/ At
  \/ Prepend
  \/ Shift
  \/ AppendOp
  \/ Pop
  \/ InsertAt
  \/ RemoveAt
  \/ Reverse
  \/ Clear
  \/ ToArray
  \/ Find
  \/ Contains

Spec == Init /\ [][Next]_vars

----------------------------------------------------------------------------
\* Vocabulary of the properties.

listVars == <<head, tail, size, next, prev, value>>

\* The values from head along next, as toArray() returns them.
Contents == toArrayLoop(Cur, head, <<>>)

\* The nodes met from n along the link f, stopping after fuel nodes.
RECURSIVE Walk(_, _, _)
Walk(f, n, fuel) ==
  IF n = Nil \/ fuel = 0 THEN <<>> ELSE <<n>> \o Walk(f, f[n], fuel - 1)

Forward == Walk(next, head, MaxNodes + 1)
Backward == Walk(prev, tail, MaxNodes + 1)

Rev(s) == [i \in 1..Len(s) |-> s[Len(s) + 1 - i]]

Distinct(s) == \A i, j \in 1..Len(s) : s[i] = s[j] => i = j

\* s with x put at 0-based position i, and s without its 0-based position i.
InsertSeq(s, i, x) == SubSeq(s, 1, i) \o <<x>> \o SubSeq(s, i + 1, Len(s))
RemoveSeq(s, i) == SubSeq(s, 1, i) \o SubSeq(s, i + 2, Len(s))

----------------------------------------------------------------------------
\* C1: after every public operation, failed calls included, size equals the
\* number of nodes reached by walking next from head: size = toArray().length.
C1_SizeIsLength == size = Len(toArray(Cur).ret.arr)

\* A failed removeAt on a list of two elements.
C1_Witness ==
  op.name = "removeAt" /\ result.kind = "OutOfBounds" /\ size = 2

\* C2: for any two nodes a, b of the list, a.next = b exactly when b.prev = a.
C2_LinksAgree ==
  \A a, b \in Live(Cur) : (next[a] = b) <=> (prev[b] = a)

\* A list of three nodes that has just been reversed.
C2_Witness == op.name = "reverse" /\ result.kind = "this" /\ size = 3

\* C3: walking next from head visits exactly size distinct nodes and ends at
\* tail; walking prev from tail visits exactly size distinct nodes and ends at
\* head; the backward walk is the forward walk reversed.
C3_WalksMatch ==
  /\ Len(Forward) = size
  /\ Len(Backward) = size
  /\ Distinct(Forward)
  /\ Distinct(Backward)
  /\ Backward = Rev(Forward)
  /\ size > 0 => Forward[size] = tail /\ Backward[size] = head

\* Two nodes remain after pop removed the third.
C3_Witness == op.name = "pop" /\ result.kind = "value" /\ size = 2

\* C4: size = 0 iff head is empty iff tail is empty, so isEmpty(), which
\* tests head only, returns true iff size = 0.
C4_EmptyAgree ==
  /\ (size = 0) <=> (head = Nil)
  /\ (head = Nil) <=> (tail = Nil)
  /\ isEmpty(Cur).ret = Bool(size = 0)

\* shift, pop or removeAt has just removed the last remaining element.
C4_Witness ==
  /\ op.name \in {"shift", "pop", "removeAt"}
  /\ result.kind = "value"
  /\ size = 0

\* C5: shift() and pop() on an empty list throw the out-of-bounds error and
\* leave head, tail, size and the nodes as they were.
C5_EmptyRemovalThrows ==
  [][(op'.name \in {"shift", "pop"} /\ size = 0)
       => (result' = OutOfBounds /\ UNCHANGED listVars)]_vars

\* pop has just failed on the empty list.
C5_Witness ==
  op.name = "pop" /\ result.kind = "OutOfBounds" /\ size = 0 /\ head = Nil

\* C6: insertAt with index < 0 or index > size, and removeAt with index < 0
\* or index >= size, throw the out-of-bounds error and leave head, tail,
\* size, the node links and toArray() exactly as before the call.
C6_BadIndexThrows ==
  [][(\/ op'.name = "insertAt" /\ (op'.index < 0 \/ op'.index > size)
      \/ op'.name = "removeAt" /\ (op'.index < 0 \/ op'.index >= size))
       => (/\ result' = OutOfBounds
           /\ UNCHANGED listVars
           /\ Contents' = Contents)]_vars

\* insertAt has just failed with an index beyond the end of a list of two.
C6_Witness ==
  /\ op.name = "insertAt"
  /\ op.index > size
  /\ result.kind = "OutOfBounds"
  /\ size = 2

\* C7: insertAt(index, v) with 0 <= index <= size succeeds; afterwards
\* toArray() is the old contents with v put at position index, and size has
\* grown by exactly 1.
C7_InsertAtPlaces ==
  [][(op'.name = "insertAt" /\ 0 <= op'.index /\ op'.index <= size)
       => (/\ result' = Void
           /\ Contents' = InsertSeq(Contents, op'.index, op'.value)
           /\ size' = size + 1)]_vars

\* insertAt has just put a value at the interior position 1.
C7_Witness ==
  /\ op.name = "insertAt"
  /\ op.index = 1
  /\ result.kind = "void"
  /\ size = 3
  /\ Contents[2] = op.value

\* C8: removeAt(index) with 0 <= index < size returns the value at position
\* index; afterwards toArray() is the old contents without that position,
\* and size has shrunk by exactly 1.
C8_RemoveAtDeletes ==
  [][(op'.name = "removeAt" /\ 0 <= op'.index /\ op'.index < size)
       => (/\ result' = Val(Contents[op'.index + 1])
           /\ Contents' = RemoveSeq(Contents, op'.index)
           /\ size' = size - 1)]_vars

\* removeAt has just taken the interior element of a list of three.
C8_Witness ==
  /\ op.name = "removeAt"
  /\ op.index = 1
  /\ result.kind = "value"
  /\ size = 2

\* C9: at(i) returns toArray()[i] when 0 <= i < size and null for every
\* other integer i; it never throws.
C9_AtIndexes ==
  op.name = "at"
    => result = IF 0 <= op.index /\ op.index < size
                THEN Val(Contents[op.index + 1])
                ELSE Null

\* at has just read the last position of a list of three.
C9_Witness ==
  op.name = "at" /\ op.index = 2 /\ size = 3 /\ result.kind = "value"

\* C10: prepend(v) makes toArray() the value v followed by the old contents,
\* append(v) the old contents followed by v; each adds exactly 1 to size
\* and neither throws.
C10_EndsInsert ==
  [][/\ op'.name = "prepend"
          => (/\ result' = Void
              /\ Contents' = <<op'.value>> \o Contents
              /\ size' = size + 1)
     /\ op'.name = "append"
          => (/\ result' = Void
              /\ Contents' = Contents \o <<op'.value>>
              /\ size' = size + 1)]_vars

\* prepend has just put a value in front of two others.
C10_Witness ==
  /\ op.name = "prepend"
  /\ result.kind = "void"
  /\ size = 3
  /\ Contents[1] = op.value

\* The 1-based position of the first occurrence of v in s, 0 when absent.
RECURSIVE FirstPos(_, _, _)
FirstPos(s, v, i) ==
  IF i > Len(s) THEN 0
  ELSE IF s[i] = v THEN i
  ELSE FirstPos(s, v, i + 1)

\* C11: on a non-empty list shift() returns the first element and leaves
\* the rest, pop() returns the last element and leaves the rest, each
\* taking exactly 1 from size.
C11_EndsRemove ==
  [][/\ (op'.name = "shift" /\ size > 0)
          => (/\ result' = Val(Head(Contents))
              /\ Contents' = Tail(Contents)
              /\ size' = size - 1)
     /\ (op'.name = "pop" /\ size > 0)
          => (/\ result' = Val(Contents[Len(Contents)])
              /\ Contents' = SubSeq(Contents, 1, Len(Contents) - 1)
              /\ size' = size - 1)]_vars

\* shift has just taken the first of three elements.
C11_Witness ==
  op.name = "shift" /\ result.kind = "value" /\ size = 2 /\ head # tail

\* C12: find(value) returns the 1-based position of the first node holding
\* value (2 for the second element, 3 for the third) and undefined when no
\* node holds it.
C12_FindPosition ==
  op.name = "find"
    => result = IF FirstPos(Contents, op.value, 1) = 0
                THEN Undefined
                ELSE Num(FirstPos(Contents, op.value, 1))

\* C13: contains(v) returns true iff some node holds v, wherever the first
\* match is, the head included.
C13_ContainsIffPresent ==
  op.name = "contains"
    => result = Bool(\E i \in 1..Len(Contents) : Contents[i] = op.value)

\* contains has just answered for a value held by the head node only.
C13_Witness ==
  /\ op.name = "contains"
  /\ size = 2
  /\ Contents[1] = op.value
  /\ Contents[2] # op.value
  /\ result.kind = "true"

\* The values of the list L from its head along next.
ContentsOf(L) == toArrayLoop(L, L.head, <<>>)

\* The list a further reverse() leaves, and what a removeAt at the index of
\* the last call leaves and returns.
ReversedAgain == reverse(Cur).list
RemovedAgain == removeAt(Cur, op.index)

\* C14: reverse() on a non-empty list returns the list itself with toArray()
\* reversed, head and tail exchanged, every node's next and prev exchanged
\* and size unchanged; on an empty list it returns null and changes nothing.
C14_ReverseReverses ==
  [][op'.name = "reverse"
       => IF head = Nil
          THEN result' = Null /\ UNCHANGED listVars
          ELSE /\ result' = This
               /\ Contents' = Rev(Contents)
               /\ head' = tail
               /\ tail' = head
               /\ size' = size
               /\ \A n \in Live(Cur) : /\ next'[n] = prev[n]
                                       /\ prev'[n] = next[n]
                                       /\ value'[n] = value[n]]_vars

\* reverse has just turned a list of three with different end values.
C14_Witness ==
  /\ op.name = "reverse"
  /\ result.kind = "this"
  /\ size = 3
  /\ Contents[1] # Contents[3]

\* C15: reverse() called twice in succession restores the original head
\* node, tail node, size and toArray() order.
C15_ReverseTwice ==
  [][op'.name = "reverse"
       => \E again \in {ReversedAgain'} :
            /\ again.head = head
            /\ again.tail = tail
            /\ again.size = size
            /\ ContentsOf(again) = Contents
            /\ again = Cur]_vars

\* reverse has just turned a list of two different values.
C15_Witness ==
  /\ op.name = "reverse"
  /\ result.kind = "this"
  /\ size = 2
  /\ Contents[1] # Contents[2]

\* C16: insertAt(i, v) with 0 <= i <= size followed by removeAt(i) returns v
\* and leaves size, toArray() and the links of the list as they were before
\* the insertAt.
C16_InsertThenRemove ==
  [][(op'.name = "insertAt" /\ 0 <= op'.index /\ op'.index <= size)
       => \E again \in {RemovedAgain'} :
            /\ again.ret = Val(op'.value)
            /\ again.list.size = size
            /\ ContentsOf(again.list) = Contents
            /\ Collect(again.list) = Cur]_vars

\* insertAt has just put into the interior a value the list did not hold.
C16_Witness ==
  /\ op.name = "insertAt"
  /\ op.index = 1
  /\ result.kind = "void"
  /\ size = 3
  /\ Contents[1] # op.value
  /\ Contents[3] # op.value

\* The list as the constructor leaves it.
Fresh == [head |-> Nil, tail |-> Nil, size |-> 0,
          next |-> [n \in Node |-> Nil],
          prev |-> [n \in Node |-> Nil],
          value |-> [n \in Node |-> 0]]

\* What isEmpty() returns now, and what the query called last returns when
\* it is called once more with the same argument.
IsEmptyNow == isEmpty(Cur).ret
Requery ==
  CASE op.name = "isEmpty" -> isEmpty(Cur).ret
    [] op.name = "at" -> at(Cur, op.index).ret
    [] op.name = "toArray" -> toArray(Cur).ret
    [] op.name = "find" -> find(Cur, op.value).ret
    [] op.name = "contains" -> contains(Cur, op.value).ret

\* C17: clear() never throws and leaves head and tail empty, size 0,
\* isEmpty() true and toArray() empty; the list is then in the state of a
\* freshly constructed one, so later operations behave as on a new list.
C17_ClearEmpties ==
  [][op'.name = "clear"
       => (/\ result' = Void
           /\ head' = Nil
           /\ tail' = Nil
           /\ size' = 0
           /\ IsEmptyNow' = Bool(TRUE)
           /\ Contents' = <<>>
           /\ Cur' = Fresh)]_vars

\* clear has just returned.
C17_Witness ==
  op.name = "clear" /\ result.kind = "void" /\ head = Nil /\ tail = Nil

\* C18: on a non-empty list head.prev and tail.next are empty; when size is
\* 1 head and tail are one node with both links empty, and head = tail on a
\* non-empty list implies size = 1.
C18_EndsClosed ==
  /\ head # Nil => prev[head] = Nil
  /\ tail # Nil => next[tail] = Nil
  /\ size = 1 => (head = tail /\ head # Nil /\ next[head] = Nil
                              /\ prev[head] = Nil)
  /\ (head # Nil /\ head = tail) => size = 1

\* shift has just left a single node.
C18_Witness ==
  op.name = "shift" /\ result.kind = "value" /\ size = 1 /\ head = tail

\* C19: prepend, append, shift and pop leave the value, next and prev of
\* every node other than the inserted or removed one unchanged, except the
\* old head's prev (prepend), the old tail's next (append), the new head's
\* prev (shift) and the new tail's next (pop).
C19_EndsFrame ==
  [][/\ op'.name = "prepend"
          => \A n \in Live(Cur) : /\ value'[n] = value[n]
                                  /\ next'[n] = next[n]
                                  /\ n # head => prev'[n] = prev[n]
     /\ op'.name = "append"
          => \A n \in Live(Cur) : /\ value'[n] = value[n]
                                  /\ prev'[n] = prev[n]
                                  /\ n # tail => next'[n] = next[n]
     /\ op'.name = "shift"
          => \A n \in Live(Cur) \ {head} : /\ value'[n] = value[n]
                                           /\ next'[n] = next[n]
                                           /\ n # head' => prev'[n] = prev[n]
     /\ op'.name = "pop"
          => \A n \in Live(Cur) \ {tail} : /\ value'[n] = value[n]
                                           /\ prev'[n] = prev[n]
                                           /\ n # tail' => next'[n] = next[n]
    ]_vars

\* append has just linked a third node behind the old tail.
C19_Witness ==
  op.name = "append" /\ result.kind = "void" /\ size = 3 /\ prev[tail] # head

\* C20: isEmpty, at, toArray, find and contains leave head, tail, size and
\* every node's value, next and prev unchanged for every argument, so that
\* repeating the query returns the same result.
C20_QueriesPure ==
  [][op'.name \in {"isEmpty", "at", "toArray", "find", "contains"}
       => (UNCHANGED listVars /\ Requery' = result')]_vars

\* find has just looked for a value a list of two does not hold.
C20_Witness ==
  op.name = "find" /\ result.kind = "undefined" /\ size = 2

====
